---- MODULE Spec2Model ----
(***************************************************************************)
(* Model of the bid analysis engine: the script, the indicators, the       *)
(* analysis tables and the comments of app.py, the BidAnalyzer class of    *)
(* analysis/bid_analysis.py and the cleaning of utils/data_loader.py.      *)
(*                                                                         *)
(* Text values (distributor names, lot items) are sequences of one         *)
(* character strings, so that splitting, substring search and the          *)
(* lexicographic order of group keys are computed and not assumed.         *)
(* Floating point values are exact fractions [num, den]; den = 0 encodes   *)
(* the non-finite values: 0/0 is NaN, 1/0 is +inf, -1/0 is -inf.           *)
(***************************************************************************)
EXTENDS Integers, Sequences, FiniteSets, TLC

VARIABLES df, kpis, data, arg, ret, pc, session_state, selected_reference

vars == <<df, kpis, data, arg, ret, pc, session_state, selected_reference>>

(***************************************************************************)
(* Bounds of the model.                                                    *)
(***************************************************************************)
MaxDfRows == 4

(***************************************************************************)
(* Numbers.                                                                *)
(***************************************************************************)
Abs(x) == IF x < 0 THEN -x ELSE x

Min(a, b) == IF a < b THEN a ELSE b

RECURSIVE GCD(_, _)
GCD(a, b) == IF b = 0 THEN a ELSE GCD(b, a % b)

Sign(x) == IF x > 0 THEN 1 ELSE IF x < 0 THEN -1 ELSE 0

\* n / d as numpy float division computes it: x/0 is +-inf, 0/0 is NaN.
Frac(n, d) ==
    IF d = 0 THEN [num |-> Sign(n), den |-> 0]
    ELSE LET g == GCD(Abs(n), Abs(d))
             s == IF d < 0 THEN -1 ELSE 1
         IN  [num |-> (s * n) \div g, den |-> Abs(d) \div g]

NaN == [num |-> 0, den |-> 0]

IsNaN(x) == x.den = 0 /\ x.num = 0

IsFinite(x) == x.den > 0

FromInt(n) == [num |-> n, den |-> 1]

\* x >= n for a float x and an integer n; every comparison with NaN is false.
GeInt(x, n) ==
    IF x.den = 0 THEN x.num > 0 ELSE x.num >= n * x.den

\* x > n
GtInt(x, n) ==
    IF x.den = 0 THEN x.num > 0 ELSE x.num > n * x.den

\* x < n
LtInt(x, n) ==
    IF x.den = 0 THEN x.num < 0 ELSE x.num < n * x.den

\* x >= y on floats
Ge(x, y) ==
    IF x.den > 0 /\ y.den > 0 THEN x.num * y.den >= y.num * x.den
    ELSE IF IsNaN(x) \/ IsNaN(y) THEN FALSE
    ELSE IF x.den = 0 /\ y.den = 0 THEN x.num >= y.num
    ELSE IF x.den = 0 THEN x.num > 0 ELSE y.num < 0

\* numpy round(decimals) of n/d to a multiple of 1/scale, ties to even.
RoundTo(x, scale) ==
    IF x.den = 0 THEN x
    ELSE LET whole == x.num \div x.den
             part == (x.num % x.den) * scale
             q == whole * scale + part \div x.den
             r == part % x.den
             up == (2 * r > x.den) \/ (2 * r = x.den /\ q % 2 = 1)
         IN  Frac(IF up THEN q + 1 ELSE q, scale)

RECURSIVE SumSeq(_)
SumSeq(s) == IF s = <<>> THEN 0 ELSE Head(s) + SumSeq(Tail(s))

RECURSIVE InsertSorted(_, _)
InsertSorted(x, s) ==
    IF s = <<>> THEN <<x>>
    ELSE IF x <= Head(s) THEN <<x>> \o s
    ELSE <<Head(s)>> \o InsertSorted(x, Tail(s))

RECURSIVE SortAsc(_)
SortAsc(s) == IF s = <<>> THEN <<>> ELSE InsertSorted(Head(s), SortAsc(Tail(s)))

\* Series.median(): NaN for an empty series, the middle value or the mean
\* of the two middle values otherwise.
Median(s) ==
    IF s = <<>> THEN NaN
    ELSE LET o == SortAsc(s)
             n == Len(o)
         IN  IF n % 2 = 1 THEN FromInt(o[(n + 1) \div 2])
             ELSE Frac(o[n \div 2] + o[n \div 2 + 1], 2)

(***************************************************************************)
(* Text.                                                                   *)
(***************************************************************************)
\* The characters of the model in code point order.
Ascii ==
    << " ", "(", "-", "1", "2", "3",
       "A", "B", "C", "D", "E", "F", "G", "H", "I", "J", "K", "L", "M",
       "N", "O", "P", "Q", "R", "S", "T", "U", "V", "W", "X", "Y", "Z",
       "a", "b", "c", "d", "e", "f", "g", "h", "i", "j", "k", "l", "m",
       "n", "o", "p", "q", "r", "s", "t", "u", "v", "w", "x", "y", "z" >>

CharCode(c) == CHOOSE i \in 1..Len(Ascii) : Ascii[i] = c

UpperLetters == SubSeq(Ascii, 7, 32)

LowerLetters == SubSeq(Ascii, 33, 58)

\* str.lower() on one character
LowerChar(c) ==
    IF \E i \in 1..Len(UpperLetters) : UpperLetters[i] = c
    THEN LowerLetters[CHOOSE i \in 1..Len(UpperLetters) : UpperLetters[i] = c]
    ELSE c

Lower(s) == [i \in 1..Len(s) |-> LowerChar(s[i])]

\* the order of Python strings
StrLess(a, b) ==
    \E k \in 0..Min(Len(a), Len(b)) :
        /\ \A i \in 1..k : a[i] = b[i]
        /\ \/ k = Len(a) /\ k < Len(b)
           \/ k < Len(a) /\ k < Len(b) /\ CharCode(a[k + 1]) < CharCode(b[k + 1])

\* pat occurs in s
Contains(s, pat) ==
    \E i \in 0..(Len(s) - Len(pat)) : SubSeq(s, i + 1, i + Len(pat)) = pat

\* s.split('-')[0]
SplitFirst(s) ==
    IF \E i \in 1..Len(s) : s[i] = "-"
    THEN SubSeq(s, 1, (CHOOSE i \in 1..Len(s) :
                          s[i] = "-" /\ \A j \in 1..(i - 1) : s[j] # "-") - 1)
    ELSE s

TS_NAME ==
    << "T", "E", "C", "H", "N", "O", "L", "O", "G", "I", "E", "S", " ",
       "S", "E", "R", "V", "I", "C", "E", "S" >>

PAS_DE_SOUMISSIONNAIRE ==
    << "P", "A", "S", " ", "D", "E", " ", "S", "O", "U", "M", "I", "S", "S",
       "I", "O", "N", "N", "A", "I", "R", "E" >>

(***************************************************************************)
(* Sequences and grouping.                                                 *)
(***************************************************************************)
Column(rows, f) == [i \in 1..Len(rows) |-> rows[i][f]]

Values(rows, f) == {rows[i][f] : i \in 1..Len(rows)}

RECURSIVE SortKeys(_)
\* the keys of a groupby, which sorts them
SortKeys(S) ==
    IF S = {} THEN <<>>
    ELSE LET m == CHOOSE x \in S : \A y \in S \ {x} : StrLess(x, y)
         IN  <<m>> \o SortKeys(S \ {m})

RECURSIVE PermSeqs(_)
PermSeqs(S) ==
    IF S = {} THEN {<<>>}
    ELSE UNION {{<<x>> \o p : p \in PermSeqs(S \ {x})} : x \in S}

\* Series.sort_values(ascending=False) with the default kind='quicksort',
\* which is not a stable sort: the outcomes are the descending orders of
\* the keys, equal values in any order.
SortValuesDesc(keys, val) ==
    {p \in PermSeqs({keys[i] : i \in 1..Len(keys)}) :
        \A i \in 1..(Len(p) - 1) : val[p[i]] >= val[p[i + 1]]}

\* index.get_loc(key) + 1 if key in index else 0
RankIn(order, key) ==
    IF \E i \in 1..Len(order) : order[i] = key
    THEN CHOOSE i \in 1..Len(order) : order[i] = key
    ELSE 0

(***************************************************************************)
(* app.py: the rows of the uploaded sheet after load_and_clean_data.       *)
(***************************************************************************)
Row(d, l, m, a) == [distributeur |-> d, lot |-> l, montant |-> m, attribution |-> a]

\* Rows the sheet may hold.  pd.to_numeric keeps a negative amount; a
\* missing attribution reads as the text NAN after astype(str).str.upper().
DfRowPool ==
    { Row(<<"A">>, <<"L", "1">>, 100, <<"A">>),
      Row(<<"B">>, <<"L", "1">>, 80, <<"A">>),
      Row(TS_NAME, <<"L", "1">>, 80, <<"A">>),
      Row(<<"Z">>, <<"L", "2">>, 50, TS_NAME),
      Row(TS_NAME, <<"L", "2">>, 0, TS_NAME),
      Row(TS_NAME, <<"L", "3">>, 100, TS_NAME),
      Row(PAS_DE_SOUMISSIONNAIRE, <<"L", "3">>, 0, <<"N", "A", "N">>),
      Row(<<"A">>, <<"L", "2">>, -50, TS_NAME) }

\* df_original is never empty when the indicators are computed (app.py
\* stops on an empty frame), and a reference filter keeps at least one row.
DfSets == UNION {[1..n -> DfRowPool] : n \in 1..MaxDfRows}

IsTsRow(r) == r.distributeur = TS_NAME

\* data.groupby('distributeur')['montant soumission'].sum()
SumByDistributeur(rows) ==
    [d \in Values(rows, "distributeur") |->
        SumSeq(Column(SelectSeq(rows, LAMBDA r : r.distributeur = d), "montant"))]

\* data.groupby('distributeur')['lot'].count(): a lot is text, never null
CountByDistributeur(rows) ==
    [d \in Values(rows, "distributeur") |->
        Len(SelectSeq(rows, LAMBDA r : r.distributeur = d))]

\* variant of PourcentageMarcheTs: the share of rows instead of amounts
PourcentageMarcheByCount(rows) ==
    IF Len(rows) > 0
    THEN Frac(Len(SelectSeq(rows, IsTsRow)) * 100, Len(rows))
    ELSE FromInt(0)

\* (montant_total_ts / montant_total_marche * 100) if montant_total_marche > 0 else 0
PourcentageMarcheTs(rows) ==
    LET montant_total_marche == SumSeq(Column(rows, "montant"))
        montant_total_ts == SumSeq(Column(SelectSeq(rows, IsTsRow), "montant"))
    IN  IF montant_total_marche > 0
        THEN Frac(montant_total_ts * 100, montant_total_marche)
        ELSE FromInt(0)

\* variant of calculate_kpis: lots_ts_soumissionne counts the rows of the
\* focal distributor instead of its lots
KpisOfCountingRows(rows, distributeurs_montant, distributeurs_count) ==
    LET ts_data == SelectSeq(rows, IsTsRow)
        total_lots == Cardinality(Values(rows, "lot"))
        tous_les_lots == Values(rows, "lot")
        lots_ts == Values(ts_data, "lot")
        lots_attribues_ts ==
            Cardinality(Values(SelectSeq(rows, LAMBDA r : r.attribution = TS_NAME), "lot"))
        lots_avec_soumission ==
            Values(SelectSeq(rows, LAMBDA r : r.distributeur # PAS_DE_SOUMISSIONNAIRE), "lot")
    IN  [ total_soumissionnaires |-> Cardinality(Values(rows, "distributeur")),
          montant_total_marche |-> SumSeq(Column(rows, "montant")),
          montant_total_ts |-> SumSeq(Column(ts_data, "montant")),
          pourcentage_marche_ts |-> PourcentageMarcheTs(rows),
          rang_montant_ts |-> RankIn(distributeurs_montant, TS_NAME),
          rang_nombre_ts |-> RankIn(distributeurs_count, TS_NAME),
          total_lots |-> total_lots,
          lots_ts_soumissionne |-> Len(ts_data),
          lots_attribues_ts |-> lots_attribues_ts,
          pourcentage_attribution_ts |->
              IF total_lots > 0 THEN Frac(lots_attribues_ts * 100, total_lots)
              ELSE FromInt(0),
          lots_non_positionnes_ts |-> Cardinality(tous_les_lots \ lots_ts),
          lots_sans_soumission |-> Cardinality(tous_les_lots \ lots_avec_soumission),
          distributeurs_montant |-> distributeurs_montant,
          distributeurs_count |-> distributeurs_count ]

\* calculate_kpis(data): the result for one outcome of each of the two sorts
KpisOf(rows, distributeurs_montant, distributeurs_count) ==
    LET ts_data == SelectSeq(rows, IsTsRow)
        total_lots == Cardinality(Values(rows, "lot"))
        tous_les_lots == Values(rows, "lot")
        lots_ts == Values(ts_data, "lot")
        lots_attribues_ts ==
            Cardinality(Values(SelectSeq(rows, LAMBDA r : r.attribution = TS_NAME), "lot"))
        lots_avec_soumission ==
            Values(SelectSeq(rows, LAMBDA r : r.distributeur # PAS_DE_SOUMISSIONNAIRE), "lot")
    IN  [ total_soumissionnaires |-> Cardinality(Values(rows, "distributeur")),
          montant_total_marche |-> SumSeq(Column(rows, "montant")),
          montant_total_ts |-> SumSeq(Column(ts_data, "montant")),
          pourcentage_marche_ts |-> PourcentageMarcheTs(rows),
          rang_montant_ts |-> RankIn(distributeurs_montant, TS_NAME),
          rang_nombre_ts |-> RankIn(distributeurs_count, TS_NAME),
          total_lots |-> total_lots,
          lots_ts_soumissionne |-> Cardinality(lots_ts),
          lots_attribues_ts |-> lots_attribues_ts,
          pourcentage_attribution_ts |->
              IF total_lots > 0 THEN Frac(lots_attribues_ts * 100, total_lots)
              ELSE FromInt(0),
          lots_non_positionnes_ts |-> Cardinality(tous_les_lots \ lots_ts),
          lots_sans_soumission |-> Cardinality(tous_les_lots \ lots_avec_soumission),
          distributeurs_montant |-> distributeurs_montant,
          distributeurs_count |-> distributeurs_count ]

\* kpis = calculate_kpis(df_filtered): one run of the script computes the
\* indicators once
CalculateKpis ==
    /\ kpis = {}
    /\ \E dm \in SortValuesDesc(SortKeys(Values(df, "distributeur")), SumByDistributeur(df)),
          dc \in SortValuesDesc(SortKeys(Values(df, "distributeur")), CountByDistributeur(df)) :
          kpis' = {KpisOf(df, dm, dc)}
    /\ UNCHANGED <<df, data, arg, ret, pc, session_state, selected_reference>>

InitKpi ==
    /\ df \in DfSets
    /\ kpis = {}
    /\ data = <<>>
    /\ arg = {}
    /\ ret = {}
    /\ pc = "indicators"
    /\ session_state = {}
    /\ selected_reference = <<>>

SpecKpi == InitKpi /\ [][CalculateKpis]_vars

(***************************************************************************)
(* Properties of calculate_kpis.                                           *)
(***************************************************************************)
TotalMarket == SumSeq(Column(df, "montant"))

TotalFocal == SumSeq(Column(SelectSeq(df, IsTsRow), "montant"))

FocalRank(agg) ==
    IF TS_NAME \notin DOMAIN agg THEN 0
    ELSE 1 + Cardinality({d \in DOMAIN agg : agg[d] > agg[TS_NAME]})
           + Cardinality({d \in DOMAIN agg : agg[d] = agg[TS_NAME] /\ StrLess(d, TS_NAME)})

\* C2: the rank of the focal distributor is 0 without focal rows, and
\* otherwise 1 + the number of distributors with a larger aggregate + the
\* number of distributors with an equal aggregate that come before it in
\* the order of the grouping step.
C2_RankTieOrder ==
    \A k \in kpis :
        /\ k.rang_montant_ts = FocalRank(SumByDistributeur(df))
        /\ k.rang_nombre_ts = FocalRank(CountByDistributeur(df))

(***************************************************************************)
(* analysis/bid_analysis.py: BidAnalyzer over the rows that                *)
(* utils/data_loader.py clean_dataframe returns (text columns are text,    *)
(* the amount is a number, the distributor is upper case).  The columns    *)
(* modele and marque are copied through and never read; they are left out. *)
(***************************************************************************)
MaxDataRows == 4

BIO == <<"B", "I", "O">>

IMG == <<"I", "M", "G">>

CANON == <<"C", "A", "N", "O", "N">>

Bid(c, g, d, m) == [categorie |-> c, gamme |-> g, distributeur |-> d, montant |-> m]

DataRowPool ==
    { Bid(BIO, <<"a", "-", "1">>, PAS_DE_SOUMISSIONNAIRE, 0),
      Bid(BIO, <<"a", "-", "2">>, <<"B">>, 9000000),
      Bid(BIO, <<"b", "a", "-", "1">>, TS_NAME, 1000000),
      Bid(BIO, <<"b", "-", "1">>, CANON, 1234000),
      Bid(IMG, <<"c", "-", "1">>, TS_NAME, 0),
      Bid(IMG, <<"a", "(", "-", "1">>, PAS_DE_SOUMISSIONNAIRE, 0),
      Bid(IMG, <<"c", "-", "2">>, PAS_DE_SOUMISSIONNAIRE, 0),
      Bid(BIO, <<"c", "-", "1">>, TS_NAME, 5000000),
      Bid(IMG, <<"d", "-", "1">>, <<"B">>, 500000) }

\* the loader hands over a frame only when it holds data
DataSets == UNION {[1..n -> DataRowPool] : n \in 1..MaxDataRows}

\* n / d * 100 on floats
Pct(n, d) ==
    IF d = 0 THEN Frac(n, 0)
    ELSE LET g == GCD(Abs(n), Abs(d)) IN Frac((n \div g) * 100, d \div g)

\* self.ts_data = data[data['distributeur'] == 'TECHNOLOGIES SERVICES']
TsData(rows) == SelectSeq(rows, LAMBDA r : r.distributeur = TS_NAME)

NoBidderPhrases ==
    { <<"p", "a", "s", " ", "d", "e", " ", "s", "o", "u", "m", "i", "s", "s",
        "i", "o", "n", "n", "a", "i", "r", "e">>,
      <<"a", "u", "c", "u", "n">>,
      <<"n", "o", "n">> }

\* str.contains('pas de soumissionnaire|aucun|non', case=False, na=False)
IsNoBidder(r) ==
    \E ph \in NoBidderPhrases : Contains(Lower(r.distributeur), ph)

\* _identify_no_bidder_gammes: the rows with their index labels
NoBidderIndex(rows) == SelectSeq([i \in 1..Len(rows) |-> i], LAMBDA i : IsNoBidder(rows[i]))

\* variant of get_market_overview: the share is computed without the test
\* on total_bids
MarketOverviewUnguarded(rows) ==
    LET total_bids == Len(rows)
        ts_participation == Len(TsData(rows))
    IN  [ total_soumissions |-> total_bids,
          montant_total_marche |-> SumSeq(Column(rows, "montant")),
          participation_ts |-> ts_participation,
          part_marche_ts |-> Pct(ts_participation, total_bids),
          gammes_sans_soumissionnaires |-> Len(NoBidderIndex(rows)) ]

\* get_market_overview
MarketOverview(rows) ==
    LET total_bids == Len(rows)
        ts_participation == Len(TsData(rows))
    IN  [ total_soumissions |-> total_bids,
          montant_total_marche |-> SumSeq(Column(rows, "montant")),
          participation_ts |-> ts_participation,
          part_marche_ts |->
              IF total_bids > 0 THEN Pct(ts_participation, total_bids) ELSE FromInt(0),
          gammes_sans_soumissionnaires |-> Len(NoBidderIndex(rows)) ]

InCategorie(rows, c) == SelectSeq(rows, LAMBDA r : r.categorie = c)

\* get_ts_performance: one row per category of ts_data, merged on the left
\* with the market statistics of get_category_analysis
TsPerformance(rows) ==
    LET ts == TsData(rows)
        cats == SortKeys(Values(ts, "categorie"))
    IN  [ i \in 1..Len(cats) |->
            LET c == cats[i]
                tsc == InCategorie(ts, c)
                all == InCategorie(rows, c)
                soumissions_ts == Len(tsc)
                montant_ts == SumSeq(Column(tsc, "montant"))
                nombre_soumissions == Len(all)
                montant_total == SumSeq(Column(all, "montant"))
            IN  [ categorie |-> c,
                  soumissions_ts |-> soumissions_ts,
                  montant_ts |-> montant_ts,
                  gammes_couvertes |-> Cardinality(Values(tsc, "gamme")),
                  montant_total |-> montant_total,
                  nombre_soumissions |-> nombre_soumissions,
                  part_marche_volume |->
                      RoundTo(Pct(soumissions_ts, nombre_soumissions), 100),
                  part_marche_montant |->
                      RoundTo(Pct(montant_ts, montant_total), 100) ] ]

\* variant of classify_position: strict comparisons
ClassifyStrict(part_marche) ==
    IF GtInt(part_marche, 30) THEN "Leader"
    ELSE IF GtInt(part_marche, 15) THEN "Competiteur fort"
    ELSE IF GtInt(part_marche, 5) THEN "Competiteur moyen"
    ELSE "Marginal"

\* classify_position on the value of row['part_marche_montant']
classify_position(part_marche) ==
    IF GeInt(part_marche, 30) THEN "Leader"
    ELSE IF GeInt(part_marche, 15) THEN "Competiteur fort"
    ELSE IF GeInt(part_marche, 5) THEN "Competiteur moyen"
    ELSE "Marginal"

\* get_ts_competitive_position
TsCompetitivePosition(rows) ==
    LET ts_perf == TsPerformance(rows)
    IN  [ i \in 1..Len(ts_perf) |->
            [ perf |-> ts_perf[i],
              position_concurrentielle |->
                  classify_position(ts_perf[i].part_marche_montant) ] ]

(***************************************************************************)
(* Estimation of the lot items without bidder.                             *)
(***************************************************************************)
\* x * n / d on floats
Scale(x, n, d) == IF x.den = 0 THEN x ELSE Frac(x.num * n, x.den * d)

\* x + y on finite floats
Plus(x, y) == Frac(x.num * y.den + y.num * x.den, x.den * y.den)

\* Series.str.contains(pat) takes pat as a regular expression (regex=True
\* is the default).  Among the characters of the model only '(' is not a
\* literal, and no ')' can close it: re.compile raises on such a pattern.
RegexCompiles(pat) == \A i \in 1..Len(pat) : pat[i] # "("

\* re.search(pat, s) for a pattern of literals
RegexSearch(pat, s) == Contains(s, pat)

Estimation(p, c, m) == [raised |-> FALSE, price |-> p, confidence |-> c, method |-> m]

\* the call ends with an exception
Raised == [raised |-> TRUE, price |-> NaN, confidence |-> "", method |-> ""]

\* self.data[(categorie == gamme.categorie) & gamme.str.contains(prefix)]
SimilarGammes(rows, gamme) ==
    SelectSeq(rows, LAMBDA r :
        /\ r.categorie = gamme.categorie
        /\ RegexSearch(SplitFirst(gamme.gamme), r.gamme))

\* variant of _estimate_gamme_price: the category median tried first
EstimateCategoryFirst(rows, gamme) ==
    LET similar_gammes == SimilarGammes(rows, gamme)
        category_median == Median(Column(InCategorie(rows, gamme.categorie), "montant"))
    IN  IF ~RegexCompiles(SplitFirst(gamme.gamme)) THEN Raised
        ELSE IF ~IsNaN(category_median)
        THEN Estimation(category_median, "Moyen", "Mediane categorielle")
        ELSE IF Len(similar_gammes) >= 2
        THEN Estimation(Median(Column(similar_gammes, "montant")), "Eleve",
                        "Mediane produits similaires")
        ELSE Estimation(Scale(Median(Column(rows, "montant")), 7, 10), "Faible",
                        "Estimation marche global")

\* variant of _estimate_gamme_price: one similar record is enough
EstimateThresholdOne(rows, gamme) ==
    LET similar_gammes == SimilarGammes(rows, gamme)
        category_median == Median(Column(InCategorie(rows, gamme.categorie), "montant"))
    IN  IF ~RegexCompiles(SplitFirst(gamme.gamme)) THEN Raised
        ELSE IF Len(similar_gammes) >= 1
        THEN Estimation(Median(Column(similar_gammes, "montant")), "Eleve",
                        "Mediane produits similaires")
        ELSE IF ~IsNaN(category_median)
        THEN Estimation(category_median, "Moyen", "Mediane categorielle")
        ELSE Estimation(Scale(Median(Column(rows, "montant")), 7, 10), "Faible",
                        "Estimation marche global")

\* _estimate_gamme_price(gamme)
EstimateGammePrice(rows, gamme) ==
    LET similar_gammes == SimilarGammes(rows, gamme)
        category_median == Median(Column(InCategorie(rows, gamme.categorie), "montant"))
    IN  IF ~RegexCompiles(SplitFirst(gamme.gamme)) THEN Raised
        ELSE IF Len(similar_gammes) >= 2
        THEN Estimation(Median(Column(similar_gammes, "montant")), "Eleve",
                        "Mediane produits similaires")
        ELSE IF ~IsNaN(category_median)
        THEN Estimation(category_median, "Moyen", "Mediane categorielle")
        ELSE Estimation(Scale(Median(Column(rows, "montant")), 7, 10), "Faible",
                        "Estimation marche global")

\* variant of estimate_missing_bids_value: the estimation searches the
\* rows that have a bidder only
EstimateMissingBidsAmongBids(rows) ==
    LET idx == NoBidderIndex(rows)
        est == [k \in 1..Len(idx) |->
                  EstimateGammePrice(SelectSeq(rows, LAMBDA r : ~IsNoBidder(r)),
                                     rows[idx[k]])]
    IN  IF \E k \in 1..Len(idx) : est[k].raised
        THEN [raised |-> TRUE, rows |-> <<>>]
        ELSE [ raised |-> FALSE,
               rows |-> [ k \in 1..Len(idx) |->
                   [ index |-> k - 1,
                     categorie |-> rows[idx[k]].categorie,
                     gamme |-> rows[idx[k]].gamme,
                     montant_estime |-> est[k].price,
                     niveau_confiance |-> est[k].confidence,
                     methode_estimation |-> est[k].method ] ] ]

\* estimate_missing_bids_value: one opportunity per row without bidder, in
\* the order of the rows; an exception in one estimation ends the call
EstimateMissingBidsValue(rows) ==
    LET idx == NoBidderIndex(rows)
        est == [k \in 1..Len(idx) |-> EstimateGammePrice(rows, rows[idx[k]])]
    IN  IF \E k \in 1..Len(idx) : est[k].raised
        THEN [raised |-> TRUE, rows |-> <<>>]
        ELSE [ raised |-> FALSE,
               rows |-> [ k \in 1..Len(idx) |->
                   [ index |-> k - 1,
                     categorie |-> rows[idx[k]].categorie,
                     gamme |-> rows[idx[k]].gamme,
                     montant_estime |-> est[k].price,
                     niveau_confiance |-> est[k].confidence,
                     methode_estimation |-> est[k].method ] ] ]

\* confidence_weights, in tenths
ConfidenceWeight(c) ==
    CASE c = "Eleve" -> 10
      [] c = "Moyen" -> 7
      [] c = "Faible" -> 4

\* variant of the score: no rounding
ScoreNotRounded(montant_estime, niveau_confiance) ==
    Scale(Scale(montant_estime, ConfidenceWeight(niveau_confiance), 10), 1, 1000000)

\* (montant_estime * score_confiance / 1000000).round(2)
ScoreOpportunite(montant_estime, niveau_confiance) ==
    RoundTo(Scale(Scale(montant_estime, ConfidenceWeight(niveau_confiance), 10),
                  1, 1000000), 100)

\* pd.cut(score, bins=[0, 1, 5, inf], labels=['Basse', 'Moyenne', 'Haute']):
\* the bins are open on the left and closed on the right (right=True,
\* include_lowest=False); a value in no bin gets no label
Priorite(score) ==
    IF IsNaN(score) THEN "NaN"
    ELSE IF GtInt(score, 5) THEN "Haute"
    ELSE IF GtInt(score, 1) THEN "Moyenne"
    ELSE IF GtInt(score, 0) THEN "Basse"
    ELSE "NaN"

Scored(o) ==
    LET sc == ScoreOpportunite(o.montant_estime, o.niveau_confiance)
    IN  [ index |-> o.index, categorie |-> o.categorie, gamme |-> o.gamme,
          montant_estime |-> o.montant_estime,
          niveau_confiance |-> o.niveau_confiance,
          methode_estimation |-> o.methode_estimation,
          score_opportunite |-> sc,
          priorite |-> Priorite(sc) ]

\* DataFrame.sort_values('score_opportunite', ascending=False): one column,
\* the default kind='quicksort' (not stable), NaN last
SortByScoreDesc(opps) ==
    {p \in PermSeqs({opps[i] : i \in 1..Len(opps)}) :
        \A i \in 1..(Len(p) - 1) :
            \/ IsNaN(p[i + 1].score_opportunite)
            \/ Ge(p[i].score_opportunite, p[i + 1].score_opportunite)}

\* get_strategic_opportunities: the outcomes of the call
StrategicOpportunities(rows) ==
    LET opportunities == EstimateMissingBidsValue(rows)
    IN  IF opportunities.raised THEN {[raised |-> TRUE, rows |-> <<>>]}
        ELSE IF opportunities.rows = <<>> THEN {[raised |-> FALSE, rows |-> <<>>]}
        ELSE {[raised |-> FALSE, rows |-> p] :
                p \in SortByScoreDesc([k \in 1..Len(opportunities.rows) |->
                                          Scored(opportunities.rows[k])])}

RECURSIVE SumFloat(_)
\* Series.sum(): NaN values are skipped
SumFloat(s) ==
    IF s = <<>> THEN FromInt(0)
    ELSE IF IsNaN(Head(s)) THEN SumFloat(Tail(s))
    ELSE Plus(Head(s), SumFloat(Tail(s)))

\* variant of get_ts_growth_potential: a share of exactly 10 counts as weak
GrowthPotentialWeakInclusive(rows, opportunities) ==
    LET ts_position == TsCompetitivePosition(rows)
        opps == opportunities.rows
        weak_categories ==
            SelectSeq(ts_position, LAMBDA t : ~GtInt(t.perf.part_marche_montant, 10)
                                              /\ ~IsNaN(t.perf.part_marche_montant))
    IN  [ raised |-> FALSE,
          opportunites_identifiees |-> Len(opps),
          montant_total_opportunites |-> SumFloat(Column(opps, "montant_estime")),
          opportunites_haute_priorite |->
              Len(SelectSeq(opps, LAMBDA o : o.priorite = "Haute")),
          categories_sous_exploitees |->
              [i \in 1..Len(weak_categories) |-> weak_categories[i].perf.categorie],
          recommandations |->
              IF opps = <<>> THEN <<>>
              ELSE <<[gamme |-> opps[1].gamme, index |-> opps[1].index,
                      montant_estime |-> opps[1].montant_estime]>> ]

\* get_ts_growth_potential for one outcome of get_strategic_opportunities
GrowthPotential(rows, opportunities) ==
    LET ts_position == TsCompetitivePosition(rows)
        opps == opportunities.rows
        weak_categories ==
            SelectSeq(ts_position, LAMBDA t : LtInt(t.perf.part_marche_montant, 10))
    IN  [ raised |-> FALSE,
          opportunites_identifiees |-> Len(opps),
          montant_total_opportunites |-> SumFloat(Column(opps, "montant_estime")),
          opportunites_haute_priorite |->
              Len(SelectSeq(opps, LAMBDA o : o.priorite = "Haute")),
          categories_sous_exploitees |->
              [i \in 1..Len(weak_categories) |-> weak_categories[i].perf.categorie],
          recommandations |->
              IF opps = <<>> THEN <<>>
              ELSE <<[gamme |-> opps[1].gamme, index |-> opps[1].index,
                      montant_estime |-> opps[1].montant_estime]>> ]

(***************************************************************************)
(* One call on a BidAnalyzer built over data.  The object keeps data,      *)
(* ts_data and no_bidder_data, which no method assigns after __init__;     *)
(* ret holds what the call returned.                                       *)
(***************************************************************************)
Returned(op, value) == {[op |-> op, value |-> value]}

GetMarketOverview ==
    /\ ret = {}
    /\ ret' = Returned("get_market_overview", MarketOverview(data))
    /\ UNCHANGED <<df, kpis, data, arg, pc, session_state, selected_reference>>

\* an empty ts_data returns an empty frame
GetTsPerformance ==
    /\ ret = {}
    /\ ret' = Returned("get_ts_performance", TsPerformance(data))
    /\ UNCHANGED <<df, kpis, data, arg, pc, session_state, selected_reference>>

GetTsCompetitivePosition ==
    /\ ret = {}
    /\ ret' = Returned("get_ts_competitive_position", TsCompetitivePosition(data))
    /\ UNCHANGED <<df, kpis, data, arg, pc, session_state, selected_reference>>

EstimateMissingBids ==
    /\ ret = {}
    /\ ret' = Returned("estimate_missing_bids_value", EstimateMissingBidsValue(data))
    /\ UNCHANGED <<df, kpis, data, arg, pc, session_state, selected_reference>>

GetStrategicOpportunities ==
    /\ ret = {}
    /\ \E o \in StrategicOpportunities(data) :
          ret' = Returned("get_strategic_opportunities", o)
    /\ UNCHANGED <<df, kpis, data, arg, pc, session_state, selected_reference>>

GetTsGrowthPotential ==
    /\ ret = {}
    /\ \E o \in StrategicOpportunities(data) :
          ret' = Returned("get_ts_growth_potential",
                          IF o.raised THEN [raised |-> TRUE]
                          ELSE GrowthPotential(data, o))
    /\ UNCHANGED <<df, kpis, data, arg, pc, session_state, selected_reference>>

InitAnalyzer ==
    /\ data \in DataSets
    /\ df = <<>>
    /\ kpis = {}
    /\ arg = {}
    /\ ret = {}
    /\ pc = "idle"
    /\ session_state = {}
    /\ selected_reference = <<>>

NextAnalyzer ==
    \/ GetMarketOverview
    \/ GetTsPerformance
    \/ GetTsCompetitivePosition
    \/ EstimateMissingBids
    \/ GetStrategicOpportunities
    \/ GetTsGrowthPotential

SpecAnalyzer == InitAnalyzer /\ [][NextAnalyzer]_vars

(***************************************************************************)
(* _estimate_gamme_price applied to any lot item, in the frame or not.     *)
(***************************************************************************)
EstimateOne ==
    /\ ret = {}
    /\ \E gamme \in DataRowPool :
          /\ arg' = {gamme}
          /\ ret' = Returned("_estimate_gamme_price", EstimateGammePrice(data, gamme))
    /\ UNCHANGED <<df, kpis, data, pc, session_state, selected_reference>>

SpecEstimate == InitAnalyzer /\ [][EstimateOne]_vars

(***************************************************************************)
(* estimate_missing_bids_value called on a BidAnalyzer built over data.    *)
(***************************************************************************)
SpecMissingBids == InitAnalyzer /\ [][EstimateMissingBids]_vars

(***************************************************************************)
(* get_ts_growth_potential called on a BidAnalyzer built over data.        *)
(***************************************************************************)
SpecGrowth == InitAnalyzer /\ [][GetTsGrowthPotential]_vars

(***************************************************************************)
(* classify_position applied to any share.                                 *)
(***************************************************************************)
MaxShareStep == 20

\* shares in thousandths of a percent, around every multiple of 5 percent
SharePool ==
    {Frac(n, 1000) : n \in {k * 5000 + d : k \in 0..MaxShareStep, d \in {-1, 0, 1}} \ {-1}}

InitClassify ==
    /\ arg \in {{x} : x \in SharePool}
    /\ ret = {}
    /\ df = <<>>
    /\ kpis = {}
    /\ data = <<>>
    /\ pc = "idle"
    /\ session_state = {}
    /\ selected_reference = <<>>

ClassifyPosition ==
    /\ ret = {}
    /\ \E x \in arg : ret' = Returned("classify_position", classify_position(x))
    /\ UNCHANGED <<df, kpis, data, arg, pc, session_state, selected_reference>>

SpecClassify == InitClassify /\ [][ClassifyPosition]_vars

(***************************************************************************)
(* The score and the priority of one opportunity                           *)
(* (get_strategic_opportunities on a frame of one estimation).             *)
(***************************************************************************)
MaxAmountStep == 12

\* estimated amounts: the multiples of 500 000 and their halves (a median
\* of two amounts), and amounts whose score has more than two decimals
AmountPool ==
    {Frac(k * 500000, 1) : k \in 0..MaxAmountStep}
        \cup {Frac(k * 500000 + 1234000, 2) : k \in 0..MaxAmountStep}
        \cup {FromInt(1234567), FromInt(1236000), FromInt(4999), FromInt(5004999)}

Confidences == {"Eleve", "Moyen", "Faible"}

InitScore ==
    /\ arg \in {{[montant_estime |-> m, niveau_confiance |-> c]} :
                    m \in AmountPool, c \in Confidences}
    /\ ret = {}
    /\ df = <<>>
    /\ kpis = {}
    /\ data = <<>>
    /\ pc = "idle"
    /\ session_state = {}
    /\ selected_reference = <<>>

ScoreOne ==
    /\ ret = {}
    /\ \E a \in arg :
          LET sc == ScoreOpportunite(a.montant_estime, a.niveau_confiance)
          IN  ret' = Returned("score", [score_opportunite |-> sc, priorite |-> Priorite(sc)])
    /\ UNCHANGED <<df, kpis, data, arg, pc, session_state, selected_reference>>

SpecScore == InitScore /\ [][ScoreOne]_vars

(***************************************************************************)
(* Properties of classify_position.                                        *)
(***************************************************************************)
\* C3: every share falls in exactly one tier: share >= 30 is Leader,
\* 15 <= share < 30 is Competiteur fort (StrongCompetitor), 5 <= share < 15
\* is Competiteur moyen (ModerateCompetitor), share < 5 is Marginal; 30.0,
\* 29.999, 5.0 and 4.999 fall in Leader, StrongCompetitor,
\* ModerateCompetitor and Marginal.
C3_ClassifyTiers ==
    \A a \in arg, r \in ret :
        r.op = "classify_position" =>
            /\ (a.num >= 30 * a.den) <=> (r.value = "Leader")
            /\ (a.num >= 15 * a.den /\ a.num < 30 * a.den) <=> (r.value = "Competiteur fort")
            /\ (a.num >= 5 * a.den /\ a.num < 15 * a.den) <=> (r.value = "Competiteur moyen")
            /\ (a.num < 5 * a.den) <=> (r.value = "Marginal")
            /\ a = Frac(30000, 1000) => r.value = "Leader"
            /\ a = Frac(29999, 1000) => r.value = "Competiteur fort"
            /\ a = Frac(5000, 1000) => r.value = "Competiteur moyen"
            /\ a = Frac(4999, 1000) => r.value = "Marginal"

\* the share 29.999 was classified, just under the Leader boundary
C3_Witness ==
    \E a \in arg, r \in ret :
        /\ r.op = "classify_position"
        /\ a = Frac(29999, 1000)
        /\ r.value = "Competiteur fort"

(***************************************************************************)
(* Properties of _estimate_gamme_price.                                    *)
(***************************************************************************)
CategoryIndex(g) == {i \in 1..Len(data) : data[i].categorie = g.categorie}

\* the records of the target's category whose lot item starts with the
\* target's prefix token
SamePrefixIndex(g) ==
    {i \in CategoryIndex(g) : SplitFirst(data[i].gamme) = SplitFirst(g.gamme)}

\* the records of the target's category whose lot item holds the target's
\* prefix token anywhere
HoldsPrefixIndex(g) ==
    {i \in CategoryIndex(g) :
        \E k \in 1..(Len(data[i].gamme) + 1) :
            /\ k + Len(SplitFirst(g.gamme)) - 1 <= Len(data[i].gamme)
            /\ \A j \in 1..Len(SplitFirst(g.gamme)) :
                  data[i].gamme[k + j - 1] = SplitFirst(g.gamme)[j]}

MedianAt(I) ==
    Median([k \in 1..Cardinality(I) |->
               data[SelectSeq([i \in 1..Len(data) |-> i], LAMBDA i : i \in I)[k]].montant])

\* the three tiers, decided by the set of similar records
TiersBy(similar, g, e) ==
    IF Cardinality(similar) >= 2
    THEN e.confidence = "Eleve" /\ e.price = MedianAt(similar)
    ELSE IF CategoryIndex(g) # {}
    THEN e.confidence = "Moyen" /\ e.price = MedianAt(CategoryIndex(g))
    ELSE /\ e.confidence = "Faible"
         /\ 10 * e.price.num * MedianAt(1..Len(data)).den
               = 7 * MedianAt(1..Len(data)).num * e.price.den

C6_EstimationNeverFails ==
    \A r \in ret :
        r.op = "estimate_missing_bids_value" =>
            /\ ~r.value.raised
            /\ \A k \in 1..Len(r.value.rows) :
                  /\ IsFinite(r.value.rows[k].montant_estime)
                  /\ r.value.rows[k].niveau_confiance \in Confidences

(***************************************************************************)
(* Properties of the score and the priority.                               *)
(***************************************************************************)
\* the weight of a confidence label, in tenths
WeightTenths(c) == IF c = "Eleve" THEN 10 ELSE IF c = "Moyen" THEN 7 ELSE 4

\* C7 as stated: score = estimated_amount * w / 1 000 000 with w = 1.0,
\* 0.7, 0.4 for High, Medium, Low; 2 000 000 with High gives 2.0, Medium.
C7_ScoreExact ==
    \A a \in arg, r \in ret :
        r.op = "score" =>
            /\ r.value.score_opportunite
                  = Frac(a.montant_estime.num * WeightTenths(a.niveau_confiance),
                         a.montant_estime.den * 10000000)
            /\ (a.montant_estime = FromInt(2000000) /\ a.niveau_confiance = "Eleve")
                  => (r.value.score_opportunite = FromInt(2) /\ r.value.priorite = "Moyenne")

\* C7 amended: the score is estimated_amount * w / 1 000 000 rounded to two
\* decimals (a whole number of hundredths, at most half a hundredth away),
\* with w = 1.0, 0.7, 0.4 for High, Medium, Low; 2 000 000 with High gives
\* 2.0 and priority Medium.
C7_ScoreRounded ==
    \A a \in arg, r \in ret :
        r.op = "score" =>
            LET sc == r.value.score_opportunite
                \* the score and the exact value in units of 1 / (2 * 10^7 * den)
                exact2 == 2 * a.montant_estime.num * WeightTenths(a.niveau_confiance)
                unit == a.montant_estime.den * 10000000
                hundredths == (sc.num * 100) \div sc.den
            IN  /\ sc.den > 0
                /\ 100 % sc.den = 0
                /\ Abs(2 * hundredths * (unit \div 100) - exact2) <= unit \div 100
                /\ (a.montant_estime = FromInt(2000000) /\ a.niveau_confiance = "Eleve")
                      => (sc = FromInt(2) /\ r.value.priorite = "Moyenne")

\* 1 234 567 with High was scored 1.23
C7_Witness ==
    \E a \in arg, r \in ret :
        /\ r.op = "score"
        /\ a.montant_estime = FromInt(1234567)
        /\ a.niveau_confiance = "Eleve"
        /\ r.value.score_opportunite = Frac(123, 100)

\* C8: every score >= 0 gets exactly one priority, the bins closed on the
\* left: [0, 1) is Basse (Low), [1, 5) is Moyenne (Medium), [5, inf) is
\* Haute (High); 0 is Low, 1 is Medium, 5 is High.
C8_LeftClosedBins ==
    \A r \in ret :
        r.op = "score" =>
            LET sc == r.value.score_opportunite
            IN  sc.num >= 0 =>
                    r.value.priorite =
                        IF sc.num >= 5 * sc.den THEN "Haute"
                        ELSE IF sc.num >= sc.den THEN "Moyenne"
                        ELSE "Basse"

(***************************************************************************)
(* Properties of the ranked opportunities and of the performance table.    *)
(***************************************************************************)
\* C9: the ranked list holds every estimated opportunity once, in
\* non-increasing score order, opportunities of equal score in input
\* order, and the recommendation of the growth summary is its first
\* element.
C9_StableDescendingRanking ==
    \A r \in ret :
        /\ (r.op = "get_strategic_opportunities" /\ ~r.value.raised) =>
              LET o == r.value.rows
              IN  /\ Len(o) = Len(NoBidderIndex(data))
                  /\ {o[i].index : i \in 1..Len(o)} = 0..(Len(o) - 1)
                  /\ \A i, j \in 1..Len(o) :
                        i < j =>
                            /\ Ge(o[i].score_opportunite, o[j].score_opportunite)
                            /\ o[i].score_opportunite = o[j].score_opportunite
                                  => o[i].index < o[j].index
        /\ (r.op = "get_ts_growth_potential" /\ ~r.value.raised) =>
              \A k \in 1..Len(r.value.recommandations) :
                  LET top == r.value.recommandations[k]
                      est == EstimateMissingBidsValue(data).rows
                  IN  \A i \in 1..Len(est) :
                        Ge(ScoreOpportunite(top.montant_estime,
                                            est[top.index + 1].niveau_confiance),
                           ScoreOpportunite(est[i].montant_estime,
                                            est[i].niveau_confiance))

\* C10: the performance table has one row for every category of the
\* dataset; a category without focal record has focal sum 0, count 0 and
\* share 0; the share is focal_sum / group_total * 100, and 0 when the
\* group total is 0.
C10_RowForEveryGroup ==
    \A r \in ret :
        r.op = "get_ts_performance" =>
            \A c \in Values(data, "categorie") :
                \E i \in 1..Len(r.value) :
                    LET row == r.value[i]
                        total == SumSeq(Column(InCategorie(data, c), "montant"))
                        focal == SumSeq(Column(InCategorie(TsData(data), c), "montant"))
                    IN  /\ row.categorie = c
                        /\ row.montant_ts = focal
                        /\ row.soumissions_ts = Len(InCategorie(TsData(data), c))
                        /\ IF total = 0 THEN row.part_marche_montant = FromInt(0)
                           ELSE row.part_marche_montant.num * total
                                    = focal * 100 * row.part_marche_montant.den

(***************************************************************************)
(* Properties of the growth summary.                                       *)
(***************************************************************************)
\* C11: the underexploited groups of the growth summary are exactly the
\* groups of the performance table whose focal share is strictly below 10:
\* a group with share exactly 10 is not listed, every group with a share
\* below 10, share 0 included, is listed, each once.
C11_UnderexploitedBelowTen ==
    \A r \in ret :
        (r.op = "get_ts_growth_potential" /\ ~r.value.raised) =>
            LET perf == TsPerformance(data)
                listed == r.value.categories_sous_exploitees
                below == {i \in 1..Len(perf) :
                             /\ perf[i].part_marche_montant.den > 0
                             /\ perf[i].part_marche_montant.num
                                   < 10 * perf[i].part_marche_montant.den}
            IN  /\ {listed[k] : k \in 1..Len(listed)} = {perf[i].categorie : i \in below}
                /\ Len(listed) = Cardinality(below)
                /\ \A i \in 1..Len(perf) :
                      perf[i].part_marche_montant = FromInt(10)
                          => \A k \in 1..Len(listed) : listed[k] # perf[i].categorie

\* a summary was returned for a table that holds a group of share exactly
\* 10, which is not listed, and a group of share 0, which is
C11_Witness ==
    \E r \in ret :
        /\ r.op = "get_ts_growth_potential"
        /\ ~r.value.raised
        /\ \E i \in 1..Len(TsPerformance(data)) :
              /\ TsPerformance(data)[i].part_marche_montant = FromInt(10)
              /\ TsPerformance(data)[i].categorie = BIO
        /\ r.value.categories_sous_exploitees = <<IMG>>

\* C26: an estimation target is a row of the frame that is searched, so
\* its category is never empty: every estimate that
\* estimate_missing_bids_value returns comes from the similar lot items or
\* from the category of the target, and never from the global fallback
\* (confidence Faible, 0.7 * the median of the frame).
C26_NoGlobalFallback ==
    \A r \in ret :
        r.op = "estimate_missing_bids_value" =>
            \A k \in 1..Len(r.value.rows) :
                LET o == r.value.rows[k]
                IN  /\ o.niveau_confiance \in {"Eleve", "Moyen"}
                    /\ o.methode_estimation # "Estimation marche global"
                    /\ InCategorie(data, o.categorie) # <<>>

\* a target alone in its category was estimated by the median of the
\* category, which is its own amount
C26_Witness ==
    \E r \in ret :
        /\ r.op = "estimate_missing_bids_value"
        /\ \E k \in 1..Len(r.value.rows) :
              /\ Len(InCategorie(data, r.value.rows[k].categorie)) = 1
              /\ r.value.rows[k].niveau_confiance = "Moyen"
              /\ r.value.rows[k].montant_estime = FromInt(0)

(***************************************************************************)
(* app.py: get_distributeurs_analysis and get_ts_paillasse_analysis on     *)
(* df_filtered.  The amount of a line is a float: pd.to_numeric keeps the  *)
(* decimals and the sign of a cell.                                        *)
(***************************************************************************)
MaxLignes == 3

MaxDistributeurs == 12

Ligne(d, p, l, m) == [distributeur |-> d, paillasse |-> p, lot |-> l, montant |-> m]

P1 == <<"P", "1">>

P2 == <<"P", "2">>

LignePool ==
    { Ligne(TS_NAME, P1, <<"L", "1">>, FromInt(1)),
      Ligne(TS_NAME, P2, <<"L", "2">>, FromInt(0)),
      Ligne(<<"A">>, P1, <<"L", "1">>, FromInt(1)),
      Ligne(<<"A">>, P2, <<"L", "2">>, Frac(1, 2)),
      Ligne(<<"B">>, P1, <<"L", "1">>, Frac(2, 5)),
      Ligne(<<"B">>, P2, <<"L", "3">>, FromInt(-1)),
      Ligne(PAS_DE_SOUMISSIONNAIRE, P2, <<"L", "3">>, FromInt(0)) }

\* a sheet of n lines, one per distributor, the amounts all different; the
\* first distributor is the focal one or not
LignesDe(n, focal) ==
    [i \in 1..n |->
        Ligne(IF focal /\ i = 1 THEN TS_NAME ELSE <<UpperLetters[i]>>,
              IF i % 2 = 1 THEN P1 ELSE P2, <<"L", "1">>, FromInt(i))]

\* df_filtered: any short frame, and the frames of up to MaxDistributeurs
\* distributors
LigneSets ==
    UNION {[1..n -> LignePool] : n \in 1..MaxLignes}
        \cup {LignesDe(n, focal) : n \in 1..MaxDistributeurs, focal \in BOOLEAN}

\* x / y on finite floats
Quot(x, y) ==
    IF y.num = 0 THEN Frac(x.num, 0) ELSE Frac(x.num * y.den, x.den * y.num)

\* data['montant soumission'].sum()
TotalMontant(rows) == SumFloat(Column(rows, "montant"))

RECURSIVE SortByMontantTotalDesc(_)
\* DataFrame.sort_values('montant_total', ascending=False): one column, the
\* default kind='quicksort' (not stable); the amounts are never NaN
SortByMontantTotalDesc(S) ==
    IF S = {} THEN {<<>>}
    ELSE UNION {{<<m>> \o p : p \in SortByMontantTotalDesc(S \ {m})} :
                   m \in {x \in S : \A y \in S : Ge(x.montant_total, y.montant_total)}}

\* variant of get_distributeurs_analysis: the shares are taken against the
\* total of the competitors, the focal distributor left out
DistributeursAnalysisCompetitorsTotal(rows) ==
    LET total_montant ==
            TotalMontant(SelectSeq(rows, LAMBDA r : r.distributeur # TS_NAME))
        line(d) ==
            LET of_d == SelectSeq(rows, LAMBDA r : r.distributeur = d)
                montant_total == RoundTo(TotalMontant(of_d), 1)
            IN  [ distributeur |-> d,
                  montant_total |-> montant_total,
                  nombre_soumissions |-> Len(of_d),
                  lots_couverts |-> Cardinality(Values(of_d, "lot")),
                  paillasses_couvertes |-> Cardinality(Values(of_d, "paillasse")),
                  pourcentage_montant |->
                      RoundTo(Scale(Quot(montant_total, total_montant), 100, 1), 100) ]
    IN  SortByMontantTotalDesc({line(d) : d \in Values(rows, "distributeur")})

\* variant of get_distributeurs_analysis: the lines with an amount <= 0 are
\* left out before grouping
DistributeursAnalysisPositiveOnly(rows) ==
    LET kept == SelectSeq(rows, LAMBDA r : r.montant.num > 0)
        total_montant == TotalMontant(kept)
        line(d) ==
            LET of_d == SelectSeq(kept, LAMBDA r : r.distributeur = d)
                montant_total == RoundTo(TotalMontant(of_d), 1)
            IN  [ distributeur |-> d,
                  montant_total |-> montant_total,
                  nombre_soumissions |-> Len(of_d),
                  lots_couverts |-> Cardinality(Values(of_d, "lot")),
                  paillasses_couvertes |-> Cardinality(Values(of_d, "paillasse")),
                  pourcentage_montant |->
                      RoundTo(Scale(Quot(montant_total, total_montant), 100, 1), 100) ]
    IN  SortByMontantTotalDesc({line(d) : d \in Values(kept, "distributeur")})

\* get_distributeurs_analysis(data): the outcomes of the call, one row per
\* distributor
DistributeursAnalysis(rows) ==
    LET total_montant == TotalMontant(rows)
        line(d) ==
            LET of_d == SelectSeq(rows, LAMBDA r : r.distributeur = d)
                montant_total == RoundTo(TotalMontant(of_d), 1)
            IN  [ distributeur |-> d,
                  montant_total |-> montant_total,
                  nombre_soumissions |-> Len(of_d),
                  lots_couverts |-> Cardinality(Values(of_d, "lot")),
                  paillasses_couvertes |-> Cardinality(Values(of_d, "paillasse")),
                  pourcentage_montant |->
                      RoundTo(Scale(Quot(montant_total, total_montant), 100, 1), 100) ]
    IN  SortByMontantTotalDesc({line(d) : d \in Values(rows, "distributeur")})

\* get_ts_paillasse_analysis(data): the outcomes of the call, an empty frame
\* when the focal distributor has no line
TsPaillasseAnalysis(rows) ==
    LET ts_data == SelectSeq(rows, LAMBDA r : r.distributeur = TS_NAME)
        total_ts == TotalMontant(ts_data)
        line(p) ==
            LET of_p == SelectSeq(ts_data, LAMBDA r : r.paillasse = p)
                montant_total == RoundTo(TotalMontant(of_p), 1)
            IN  [ paillasse |-> p,
                  montant_total |-> montant_total,
                  nombre_soumissions |-> Len(of_p),
                  lots_couverts |-> Cardinality(Values(of_p, "lot")),
                  pourcentage_ts |->
                      RoundTo(Scale(Quot(montant_total, total_ts), 100, 1), 100) ]
    IN  IF ts_data = <<>> THEN {<<>>}
        ELSE SortByMontantTotalDesc({line(p) : p \in Values(ts_data, "paillasse")})

GetDistributeursAnalysis ==
    /\ ret = {}
    /\ \E t \in DistributeursAnalysis(df) :
          ret' = Returned("get_distributeurs_analysis", t)
    /\ UNCHANGED <<df, kpis, data, arg, pc, session_state, selected_reference>>

GetTsPaillasseAnalysis ==
    /\ ret = {}
    /\ \E t \in TsPaillasseAnalysis(df) :
          ret' = Returned("get_ts_paillasse_analysis", t)
    /\ UNCHANGED <<df, kpis, data, arg, pc, session_state, selected_reference>>

InitAnalysis ==
    /\ df \in LigneSets
    /\ kpis = {}
    /\ data = <<>>
    /\ arg = {}
    /\ ret = {}
    /\ pc = "indicators"
    /\ session_state = {}
    /\ selected_reference = <<>>

NextAnalysis ==
    \/ GetDistributeursAnalysis
    \/ GetTsPaillasseAnalysis

SpecAnalysis == InitAnalysis /\ [][NextAnalysis]_vars

(***************************************************************************)
(* Properties of the per-distributor table.                                *)
(***************************************************************************)
\* the sum of the amounts of the lines of one distributor
MontantOf(d) == TotalMontant(SelectSeq(df, LAMBDA r : r.distributeur = d))

\* x <= y on finite floats, the whole parts compared first
LeFrac(x, y) ==
    \/ x.num \div x.den < y.num \div y.den
    \/ /\ x.num \div x.den = y.num \div y.den
       /\ (x.num % x.den) * y.den <= (y.num % y.den) * x.den

\* |x - y| <= n * (1/200 + 50 / total): n roundings of a share to two
\* decimals and of an amount to a whole number, in percent of total
WithinRounding(x, y, n, total) ==
    /\ IsFinite(x)
    /\ LeFrac(Frac(Abs(x.num * y.den - y.num * x.den), x.den * y.den),
              Frac(n * (total.num + 10000 * total.den), 200 * total.num))

\* |x - y| <= n / 200: n roundings of a share to two decimals
WithinShareRounding(x, y, n) ==
    /\ IsFinite(x)
    /\ LeFrac(Frac(Abs(x.num * y.den - y.num * x.den), x.den * y.den), Frac(n, 200))

C13_ZeroDenominatorIsZero ==
    \A r \in ret :
        /\ r.op = "get_distributeurs_analysis" =>
              \A i \in 1..Len(r.value) :
                  /\ IsFinite(r.value[i].pourcentage_montant)
                  /\ TotalMontant(df).num = 0
                        => r.value[i].pourcentage_montant = FromInt(0)
        /\ r.op = "get_ts_paillasse_analysis" =>
              \A i \in 1..Len(r.value) :
                  /\ IsFinite(r.value[i].pourcentage_ts)
                  /\ MontantOf(TS_NAME).num = 0
                        => r.value[i].pourcentage_ts = FromInt(0)

\* every distributor of the dataset has exactly one row in the table
OneRowEach(t) ==
    /\ \A d \in Values(df, "distributeur") :
          Cardinality({i \in 1..Len(t) : t[i].distributeur = d}) = 1
    /\ \A i \in 1..Len(t) : t[i].distributeur \in Values(df, "distributeur")

OTHERS == <<"O", "T", "H", "E", "R", "S">>

\* C16: the table keeps the 8 distributors with the largest sums and merges
\* the others into one row OTHERS: more than 8 distributors give 9 rows
\* (12 give 9), 8 or fewer give a row each and no row OTHERS.
C16_TopEightAndOthers ==
    \A r \in ret :
        r.op = "get_distributeurs_analysis" =>
            LET t == r.value
                n == Cardinality(Values(df, "distributeur"))
                others == {i \in 1..Len(t) : t[i].distributeur = OTHERS}
            IN  IF n > 8
                THEN Len(t) = 9 /\ Cardinality(others) = 1
                ELSE Len(t) = n /\ others = {}

(***************************************************************************)
(* Properties of the detection of the rows without bidder.                 *)
(***************************************************************************)
\* the distributor of the row is one of the sentinel phrases, whatever the
\* case of its letters
IsSentinel(r) == Lower(r.distributeur) \in NoBidderPhrases

\* C14: a row whose distributor is a real bidder (not one of the sentinel
\* phrases, compared case-insensitively) is never treated as a row without
\* bidder, and a lot item with a real bid is never counted as one without
\* bidders: the rows counted and the rows estimated are sentinel rows.
C14_OnlySentinelRowsAreNoBidder ==
    \A r \in ret :
        /\ r.op = "get_market_overview" =>
              r.value.gammes_sans_soumissionnaires
                  = Cardinality({i \in 1..Len(data) : IsSentinel(data[i])})
        /\ (r.op = "estimate_missing_bids_value" /\ ~r.value.raised) =>
              /\ Len(r.value.rows)
                    = Cardinality({i \in 1..Len(data) : IsSentinel(data[i])})
              /\ \A k \in 1..Len(r.value.rows) :
                    \E i \in 1..Len(data) :
                        /\ IsSentinel(data[i])
                        /\ data[i].gamme = r.value.rows[k].gamme
                        /\ data[i].categorie = r.value.rows[k].categorie

(***************************************************************************)
(* A session: several calls, one after the other, on one BidAnalyzer.      *)
(* self.data is the caller's frame itself (no copy is made in __init__).   *)
(* The order in which sort_values leaves rows of equal score depends on    *)
(* the build, not on the call: it is drawn once, with the frame.           *)
(***************************************************************************)
MaxCalls == 3

\* the frames of the sessions: two rows without bidder of equal score, a
\* row without bidder and a bid, the focal distributor and a competitor,
\* a lot item whose prefix is no pattern, a competitor taken for a row
\* without bidder, and three rows over two categories
SessionSets ==
    { << Bid(BIO, <<"a", "-", "1">>, PAS_DE_SOUMISSIONNAIRE, 0),
         Bid(BIO, <<"a", "-", "1">>, PAS_DE_SOUMISSIONNAIRE, 0) >>,
      << Bid(BIO, <<"a", "-", "1">>, PAS_DE_SOUMISSIONNAIRE, 0),
         Bid(BIO, <<"a", "-", "2">>, <<"B">>, 9000000) >>,
      << Bid(BIO, <<"b", "a", "-", "1">>, TS_NAME, 1000000),
         Bid(BIO, <<"a", "-", "2">>, <<"B">>, 9000000) >>,
      << Bid(IMG, <<"a", "(", "-", "1">>, PAS_DE_SOUMISSIONNAIRE, 0) >>,
      << Bid(BIO, <<"b", "-", "1">>, CANON, 1234000),
         Bid(IMG, <<"c", "-", "1">>, TS_NAME, 0) >>,
      << Bid(BIO, <<"a", "-", "1">>, PAS_DE_SOUMISSIONNAIRE, 0),
         Bid(BIO, <<"b", "a", "-", "1">>, TS_NAME, 1000000),
         Bid(IMG, <<"c", "-", "2">>, PAS_DE_SOUMISSIONNAIRE, 0) >> }

\* variant of DataAfter: estimate_missing_bids_value removes the rows it
\* has estimated from self.data
DataAfterDropping(op, rows) ==
    IF op = "estimate_missing_bids_value"
    THEN SelectSeq(rows, LAMBDA r : ~IsNoBidder(r))
    ELSE rows

\* self.data after a call: no method assigns self.data, self.ts_data or
\* self.no_bidder_data, and none modifies these frames in place
DataAfter(op, rows) == rows

\* the outcomes of get_strategic_opportunities in this session
SessionOpportunities ==
    {o \in StrategicOpportunities(data) : \A a \in arg : data = a.input => o = a.order}

SessionCall(op, value) ==
    /\ Cardinality(ret) < MaxCalls
    /\ ret' = ret \cup {[call |-> Cardinality(ret) + 1, op |-> op, value |-> value]}
    /\ data' = DataAfter(op, data)
    /\ UNCHANGED <<df, kpis, arg, pc, session_state, selected_reference>>

CallGetMarketOverview == SessionCall("get_market_overview", MarketOverview(data))

CallGetTsPerformance == SessionCall("get_ts_performance", TsPerformance(data))

CallGetTsCompetitivePosition ==
    SessionCall("get_ts_competitive_position", TsCompetitivePosition(data))

CallEstimateMissingBids ==
    SessionCall("estimate_missing_bids_value", EstimateMissingBidsValue(data))

CallGetStrategicOpportunities ==
    \E o \in SessionOpportunities : SessionCall("get_strategic_opportunities", o)

CallGetTsGrowthPotential ==
    \E o \in SessionOpportunities :
        SessionCall("get_ts_growth_potential",
                    IF o.raised THEN [raised |-> TRUE] ELSE GrowthPotential(data, o))

InitSession ==
    /\ data \in SessionSets
    /\ arg \in {{[input |-> data, order |-> o]} : o \in StrategicOpportunities(data)}
    /\ ret = {}
    /\ df = <<>>
    /\ kpis = {}
    /\ pc = "idle"
    /\ session_state = {}
    /\ selected_reference = <<>>

NextSession ==
    \/ CallGetMarketOverview
    \/ CallGetTsPerformance
    \/ CallGetTsCompetitivePosition
    \/ CallEstimateMissingBids
    \/ CallGetStrategicOpportunities
    \/ CallGetTsGrowthPotential

SpecSession == InitSession /\ [][NextSession]_vars

MaxCellAmount == 20

Digits == <<"0", "1", "2", "3", "4", "5", "6", "7", "8", "9">>

IsDigit(c) == \E i \in 1..Len(Digits) : Digits[i] = c

DigitValue(c) == (CHOOSE i \in 1..Len(Digits) : Digits[i] = c) - 1

RECURSIVE DigitsValue(_)
DigitsValue(s) ==
    IF s = <<>> THEN 0
    ELSE DigitsValue(SubSeq(s, 1, Len(s) - 1)) * 10 + DigitValue(s[Len(s)])

RECURSIVE NatToText(_)
NatToText(n) ==
    IF n < 10 THEN <<Digits[n + 1]>>
    ELSE NatToText(n \div 10) \o <<Digits[(n % 10) + 1]>>

\* str(n)
IntToText(n) == IF n < 0 THEN <<"-">> \o NatToText(-n) ELSE NatToText(n)

RECURSIVE RemoveAll(_, _)
\* str.replace(pat, '') of a literal pattern
RemoveAll(s, pat) ==
    IF Len(s) < Len(pat) THEN s
    ELSE IF SubSeq(s, 1, Len(pat)) = pat
    THEN RemoveAll(SubSeq(s, Len(pat) + 1, Len(s)), pat)
    ELSE <<Head(s)>> \o RemoveAll(Tail(s), pat)

\* the text is a whole number with an optional sign: what float() and
\* pd.to_numeric accept among the texts of the model
ParsesAsNumber(s) ==
    LET body == IF s # <<>> /\ s[1] = "-" THEN Tail(s) ELSE s
    IN  body # <<>> /\ \A i \in 1..Len(body) : IsDigit(body[i])

ParseNumber(s) ==
    IF s[1] = "-" THEN -DigitsValue(Tail(s)) ELSE DigitsValue(s)

NumberCell(n) == [kind |-> "number", value |-> n, text |-> <<>>]

TextCell(t) == [kind |-> "text", value |-> 0, text |-> t]

MissingCell == [kind |-> "missing", value |-> 0, text |-> <<>>]

CellTexts ==
    { <<"1", "2">>,
      <<"-", "5", "0">>,
      <<"1", " ", "0", "0", "0", " ", "F", "C", "F", "A">>,
      <<"1", ",", "0", "0", "0">>,
      <<"A", "B", "C">>,
      <<"n", "a", "n">>,
      <<"N", "o", "n", "e">>,
      <<>> }

CellPool ==
    {NumberCell(n) : n \in (-MaxCellAmount)..MaxCellAmount}
        \cup {TextCell(t) : t \in CellTexts}
        \cup {MissingCell}

Amount(m) == [raised |-> FALSE, montant |-> m]

\* astype(float) raises ValueError
AmountRaised == [raised |-> TRUE, montant |-> 0]

\* pd.to_numeric(df['montant soumission'], errors='coerce').fillna(0)
ToNumericFillna(cell) ==
    IF cell.kind = "number" THEN Amount(cell.value)
    ELSE IF cell.kind = "text" /\ ParsesAsNumber(cell.text)
    THEN Amount(ParseNumber(cell.text))
    ELSE Amount(0)

\* clean_dataframe: astype(str), the replacements, astype(float)
CleanMontant(cell) ==
    LET as_str == IF cell.kind = "number" THEN IntToText(cell.value)
                  ELSE IF cell.kind = "missing" THEN <<"n", "a", "n">>
                  ELSE cell.text
        stripped == RemoveAll(RemoveAll(RemoveAll(as_str, <<" ", "F", "C", "F", "A">>),
                                        <<" ">>), <<",">>)
        replaced == IF stripped \in {<<"n", "a", "n">>, <<"N", "o", "n", "e">>}
                    THEN <<"0">> ELSE stripped
    IN  IF ParsesAsNumber(replaced) THEN Amount(ParseNumber(replaced))
        ELSE AmountRaised

LoadAndCleanData ==
    /\ ret = {}
    /\ \E cell \in arg : ret' = Returned("load_and_clean_data", ToNumericFillna(cell))
    /\ UNCHANGED <<df, kpis, data, arg, pc, session_state, selected_reference>>

CleanDataframe ==
    /\ ret = {}
    /\ \E cell \in arg : ret' = Returned("clean_dataframe", CleanMontant(cell))
    /\ UNCHANGED <<df, kpis, data, arg, pc, session_state, selected_reference>>

InitLoad ==
    /\ arg \in {{cell} : cell \in CellPool}
    /\ ret = {}
    /\ df = <<>>
    /\ kpis = {}
    /\ data = <<>>
    /\ pc = "idle"
    /\ session_state = {}
    /\ selected_reference = <<>>

NextLoad ==
    \/ LoadAndCleanData
    \/ CleanDataframe

SpecLoad == InitLoad /\ [][NextLoad]_vars

\* C18: after normalisation the amount of every row is a number >= 0: an
\* unparseable or missing amount becomes 0 and no negative amount survives
\* loading.
C18_AmountsNonNegative ==
    \A cell \in arg, r \in ret :
        /\ ~r.value.raised
        /\ r.value.montant >= 0
        /\ cell \in {MissingCell, TextCell(<<"A", "B", "C">>), TextCell(<<>>)}
              => r.value.montant = 0

(***************************************************************************)
(* Properties of the rows with an amount <= 0.                             *)
(***************************************************************************)
\* the distributors with a submission: a row whose amount is > 0
Submitters == {df[i].distributeur : i \in {j \in 1..Len(df) : df[j].montant > 0}}

\* C19: the rows whose amount is <= 0 are no submissions and change no
\* aggregation: the number of distinct distributors and the distributors
\* ranked by their number of submissions are those of the rows with an
\* amount > 0, each ranked with the number of such rows.
C19_NonPositiveRowsIgnored ==
    \A k \in kpis :
        /\ k.total_soumissionnaires = Cardinality(Submitters)
        /\ {k.distributeurs_count[i] : i \in 1..Len(k.distributeurs_count)} = Submitters
        /\ k.rang_nombre_ts > 0 <=> TS_NAME \in Submitters

\* C25: in every result of calculate_kpis the lots are partitioned by the
\* participation of the focal distributor: the lots it bid on and the lots
\* it did not add up to all the lots, the lots without any bidder are among
\* those it did not bid on, and the lots attributed to it are at most all
\* the lots, so the attribution percentage lies between 0 and 100.
C25_LotsPartitioned ==
    \A k \in kpis :
        LET tous_les_lots == Values(df, "lot")
            lots_ts == Values(SelectSeq(df, IsTsRow), "lot")
            lots_sans_soumission ==
                {l \in tous_les_lots :
                    \A i \in 1..Len(df) :
                        df[i].lot = l => df[i].distributeur = PAS_DE_SOUMISSIONNAIRE}
        IN  /\ k.lots_ts_soumissionne + k.lots_non_positionnes_ts = k.total_lots
            /\ k.total_lots = Cardinality(tous_les_lots)
            /\ k.lots_sans_soumission = Cardinality(lots_sans_soumission)
            /\ k.lots_non_positionnes_ts = Cardinality(tous_les_lots \ lots_ts)
            /\ lots_sans_soumission \subseteq tous_les_lots \ lots_ts
            /\ k.lots_sans_soumission <= k.lots_non_positionnes_ts
            /\ k.lots_attribues_ts <= k.total_lots
            /\ GeInt(k.pourcentage_attribution_ts, 0)
            /\ ~GtInt(k.pourcentage_attribution_ts, 100)

\* three lots: one the focal distributor bid on twice, one a competitor
\* bid on, one without bidder
C25_Witness ==
    \E k \in kpis :
        /\ k.total_lots = 3
        /\ k.lots_ts_soumissionne = 1
        /\ k.lots_non_positionnes_ts = 2
        /\ k.lots_sans_soumission = 1
        /\ Len(SelectSeq(df, IsTsRow)) = 2

(***************************************************************************)
(* The aggregation operations on a frame that has every column and may     *)
(* have no row: calculate_kpis on df, the BidAnalyzer methods on data.     *)
(***************************************************************************)
InitZeroRows ==
    /\ df \in {<<>>} \cup [1..1 -> DfRowPool]
    /\ data \in {<<>>} \cup SessionSets
    /\ kpis = {}
    /\ arg = {}
    /\ ret = {}
    /\ pc = "idle"
    /\ session_state = {}
    /\ selected_reference = <<>>

NextZeroRows ==
    \/ CalculateKpis
    \/ GetMarketOverview
    \/ GetTsPerformance
    \/ GetTsCompetitivePosition
    \/ EstimateMissingBids
    \/ GetStrategicOpportunities
    \/ GetTsGrowthPotential

SpecZeroRows == InitZeroRows /\ [][NextZeroRows]_vars

\* the result of a BidAnalyzer method is the zero or empty one
IsZeroResult(r) ==
    IF r.op = "get_market_overview"
    THEN r.value = [ total_soumissions |-> 0, montant_total_marche |-> 0,
                     participation_ts |-> 0, part_marche_ts |-> FromInt(0),
                     gammes_sans_soumissionnaires |-> 0 ]
    ELSE IF r.op \in {"get_ts_performance", "get_ts_competitive_position"}
    THEN r.value = <<>>
    ELSE IF r.op \in {"estimate_missing_bids_value", "get_strategic_opportunities"}
    THEN r.value = [raised |-> FALSE, rows |-> <<>>]
    ELSE r.value = [ raised |-> FALSE,
                     opportunites_identifiees |-> 0,
                     montant_total_opportunites |-> FromInt(0),
                     opportunites_haute_priorite |-> 0,
                     categories_sous_exploitees |-> <<>>,
                     recommandations |-> <<>> ]

\* C21: on a dataset with all the columns and no row every aggregation
\* returns its zero or empty result and raises nothing: the indicators are
\* all 0 with empty rankings, the overview is all 0, the tables are empty,
\* the growth potential counts no opportunity.
C21_ZeroRowsGiveZeroResults ==
    /\ df = <<>> =>
          \A k \in kpis :
              k = [ total_soumissionnaires |-> 0, montant_total_marche |-> 0,
                    montant_total_ts |-> 0, pourcentage_marche_ts |-> FromInt(0),
                    rang_montant_ts |-> 0, rang_nombre_ts |-> 0, total_lots |-> 0,
                    lots_ts_soumissionne |-> 0, lots_attribues_ts |-> 0,
                    pourcentage_attribution_ts |-> FromInt(0),
                    lots_non_positionnes_ts |-> 0, lots_sans_soumission |-> 0,
                    distributeurs_montant |-> <<>>, distributeurs_count |-> <<>> ]
    /\ data = <<>> => \A r \in ret : IsZeroResult(r)
    /\ DistributeursAnalysis(<<>>) = {<<>>}
    /\ TsPaillasseAnalysis(<<>>) = {<<>>}

\* the indicators and the growth potential were computed on frames
\* without rows
C21_Witness ==
    /\ df = <<>>
    /\ data = <<>>
    /\ kpis # {}
    /\ \E r \in ret : r.op = "get_ts_growth_potential"

(***************************************************************************)
(* get_ts_vs_competitors called on a BidAnalyzer built over data.          *)
(***************************************************************************)
MaxSubmissions == 6

MaxCompetitors == 7

\* n rows of one distributor
Submissions(d, n) == [i \in 1..n |-> Bid(BIO, <<"a", "-", "1">>, d, 100)]

\* the focal distributor or not, with two competitors of up to
\* MaxSubmissions rows each, or with up to MaxCompetitors competitors of
\* five rows each
CompareSets ==
    {Submissions(TS_NAME, t) \o Submissions(<<"A">>, a) \o Submissions(<<"B">>, b) :
        t \in 0..1, a \in 0..MaxSubmissions, b \in 0..MaxSubmissions}
    \cup
    {LET Wide[k \in 0..n] ==
             IF k = 0 THEN Submissions(TS_NAME, 1)
             ELSE Wide[k - 1] \o Submissions(<<UpperLetters[k]>>, 5)
     IN  Wide[n] : n \in 1..MaxCompetitors}

\* get_competitive_landscape: one row per distributor, in the order of the
\* keys
CompetitiveLandscape(rows) ==
    LET keys == SortKeys(Values(rows, "distributeur"))
        total == SumSeq(Column(rows, "montant"))
    IN  [ i \in 1..Len(keys) |->
            LET own == SelectSeq(rows, LAMBDA r : r.distributeur = keys[i])
                montant_total == SumSeq(Column(own, "montant"))
            IN  [ distributeur |-> keys[i],
                  nombre_soumissions |-> Len(own),
                  montant_total |-> montant_total,
                  prix_moyen |-> RoundTo(Frac(montant_total, Len(own)), 100),
                  categories_couvertes |-> Cardinality(Values(own, "categorie")),
                  gammes_couvertes |-> Cardinality(Values(own, "gamme")),
                  part_marche_volume |-> RoundTo(Pct(Len(own), Len(rows)), 100),
                  part_marche_montant |-> RoundTo(Pct(montant_total, total), 100) ] ]

RECURSIVE NLargest(_, _)
\* DataFrame.nlargest(n, 'nombre_soumissions'): the n rows with the largest
\* counts in descending order, equal counts in the order of the frame
NLargest(n, t) ==
    IF n = 0 \/ t = <<>> THEN <<>>
    ELSE LET i == CHOOSE k \in 1..Len(t) :
                     /\ \A j \in 1..Len(t) : t[j].nombre_soumissions <= t[k].nombre_soumissions
                     /\ \A j \in 1..(k - 1) : t[j].nombre_soumissions < t[k].nombre_soumissions
         IN  <<t[i]>> \o NLargest(n - 1, SubSeq(t, 1, i - 1) \o SubSeq(t, i + 1, Len(t)))

\* get_ts_vs_competitors
TsVsCompetitors(rows) ==
    LET competitors == CompetitiveLandscape(rows)
        ts_data == SelectSeq(competitors, LAMBDA c : c.distributeur = TS_NAME)
        main_competitors ==
            NLargest(5, SelectSeq(competitors,
                                  LAMBDA c : c.distributeur # TS_NAME
                                             /\ c.nombre_soumissions >= 5))
    IN  IF ts_data = <<>> THEN <<>> ELSE ts_data \o main_competitors

GetTsVsCompetitors ==
    /\ ret = {}
    /\ ret' = Returned("get_ts_vs_competitors", TsVsCompetitors(data))
    /\ UNCHANGED <<df, kpis, data, arg, pc, session_state, selected_reference>>

InitCompare ==
    /\ data \in CompareSets
    /\ df = <<>>
    /\ kpis = {}
    /\ arg = {}
    /\ ret = {}
    /\ pc = "idle"
    /\ session_state = {}
    /\ selected_reference = <<>>

SpecCompare == InitCompare /\ [][GetTsVsCompetitors]_vars

\* the distributors other than the focal one, and the rows of each
NonFocal == Values(data, "distributeur") \ {TS_NAME}

SubmissionCount(d) == Len(SelectSeq(data, LAMBDA r : r.distributeur = d))

\* C22: when the focal distributor has rows, the comparison holds its row
\* and min(5, number of non-focal distributors) non-focal rows, those with
\* the largest submission counts whatever these counts are, and every row
\* carries a type that is Focal or Competitor.
C22_TopFiveWhateverTheCount ==
    \A r \in ret :
        TS_NAME \in Values(data, "distributeur") =>
            LET t == r.value
                returned == {t[i].distributeur : i \in 1..Len(t)}
            IN  /\ Len(t) = 1 + Min(5, Cardinality(NonFocal))
                /\ TS_NAME \in returned
                /\ \A d \in NonFocal :
                      Cardinality({e \in NonFocal \ {d} :
                                      SubmissionCount(e) >= SubmissionCount(d)}) < 5
                      => d \in returned
                /\ \A i \in 1..Len(t) :
                      /\ "type" \in DOMAIN t[i]
                      /\ t[i].type \in {"Focal", "Competitor"}

(***************************************************************************)
(* app.py: one run of the script on an uploaded sheet, from                *)
(* load_and_clean_data to the computation of the indicators.  arg holds    *)
(* the sheet, df the frame (df_original, then df_filtered), pc the         *)
(* statement the script is at.                                             *)
(***************************************************************************)
MaxSheetRows == 2

REQUIRED_COLUMNS ==
    {"paillasse", "lot", "distributeur", "montant soumission", "attribution",
     "reference", "famille"}

\* str.upper(): the lower-case letters are replaced, any other character
\* is kept
Upper(s) ==
    [i \in 1..Len(s) |->
        IF \E k \in 1..Len(LowerLetters) : LowerLetters[k] = s[i]
        THEN UpperLetters[CHOOSE k \in 1..Len(LowerLetters) : LowerLetters[k] = s[i]]
        ELSE s[i]]

RECURSIVE LStrip(_)
LStrip(s) == IF s # <<>> /\ Head(s) = " " THEN LStrip(Tail(s)) ELSE s

RECURSIVE RStrip(_)
RStrip(s) ==
    IF s # <<>> /\ s[Len(s)] = " " THEN RStrip(SubSeq(s, 1, Len(s) - 1)) ELSE s

\* astype(str).str.upper().str.strip() on a text that astype(str) returned
UpperStrip(s) == RStrip(LStrip(Upper(s)))

\* a row of the sheet as pd.read_excel returns it; the texts are given as
\* astype(str) renders them (a missing cell reads nan)
SheetRow(d, p, l, cell, a, ref) ==
    [ distributeur |-> d, paillasse |-> p, lot |-> l, montant |-> cell,
      attribution |-> a, reference |-> ref ]

SheetRowPool ==
    { SheetRow(<<"t", "e", "c", "h", "n", "o", "l", "o", "g", "i", "e", "s", " ",
                 "S", "e", "r", "v", "i", "c", "e", "s", " ">>,
               P1, <<"L", "1">>, NumberCell(80), <<"A">>, <<"R", "1">>),
      SheetRow(<<"A">>, P1, <<"L", "1">>, NumberCell(100), <<"a">>, <<"R", "1">>),
      SheetRow(<<"B">>, P2, <<"L", "2">>, TextCell(<<"A", "B", "C">>), TS_NAME, <<"R", "2">>),
      SheetRow(PAS_DE_SOUMISSIONNAIRE, P2, <<"L", "3">>, MissingCell,
               <<"n", "a", "n">>, <<"R", "2">>),
      SheetRow(TS_NAME, P2, <<"L", "2">>, NumberCell(-1), TS_NAME, <<"R", "2">>) }

\* the columns of the sheet: all the required ones, or all but some
SheetColumns ==
    {REQUIRED_COLUMNS \ missing :
        missing \in {{}} \cup {{c} : c \in REQUIRED_COLUMNS}
                        \cup {{"lot", "montant soumission"}, REQUIRED_COLUMNS}}

Sheets ==
    {[columns |-> c, rows |-> r] :
        c \in SheetColumns,
        r \in UNION {[1..n -> SheetRowPool] : n \in 0..MaxSheetRows}}

\* load_and_clean_data: the texts of the columns that exist are upper-cased
\* and stripped, the amounts converted if the column exists; a column
\* that does not exist has no values (rendered here as empty texts and 0);
\* the column commentaires_dg, which the sheets do not have, is added empty
LoadedRow(columns, r) ==
    LET text(c, v) == IF c \in columns THEN UpperStrip(v) ELSE <<>>
    IN  [ distributeur |-> text("distributeur", r.distributeur),
          paillasse |-> text("paillasse", r.paillasse),
          lot |-> text("lot", r.lot),
          attribution |-> text("attribution", r.attribution),
          reference |-> text("reference", r.reference),
          montant |-> IF "montant soumission" \in columns
                      THEN ToNumericFillna(r.montant).montant ELSE 0,
          commentaires_dg |-> <<>> ]

\* df_original = load_and_clean_data(uploaded_file)
ScriptLoad ==
    /\ pc = "load"
    /\ \E sheet \in arg :
          df' = [i \in 1..Len(sheet.rows) |-> LoadedRow(sheet.columns, sheet.rows[i])]
    /\ pc' = "check_empty"
    /\ UNCHANGED <<kpis, data, arg, ret, session_state, selected_reference>>

\* if df_original.empty: st.error, st.stop()
CheckEmpty ==
    /\ pc = "check_empty"
    /\ pc' = IF df = <<>> THEN "stopped_empty" ELSE "check_columns"
    /\ UNCHANGED <<df, kpis, data, arg, ret, session_state, selected_reference>>

\* variant of CheckColumns: the missing columns are reported by a warning
\* and the script goes on
CheckColumnsWarnOnly ==
    /\ pc = "check_columns"
    /\ pc' = "filter"
    /\ UNCHANGED <<df, kpis, data, arg, ret, session_state, selected_reference>>

\* if missing_columns: st.error, st.stop()
CheckColumns ==
    /\ pc = "check_columns"
    /\ \E sheet \in arg :
          LET missing_columns == REQUIRED_COLUMNS \ (sheet.columns \cup {"commentaires_dg"})
          IN  pc' = IF missing_columns # {} THEN "stopped_missing" ELSE "filter"
    /\ UNCHANGED <<df, kpis, data, arg, ret, session_state, selected_reference>>

TOUS_LES_APPELS_D_OFFRE ==
    <<"T", "O", "U", "S", " ", "L", "E", "S", " ", "A", "P", "P", "E", "L", "S",
      " ", "D", "'", "O", "F", "F", "R", "E">>

\* the reference chosen in the sidebar, all of them or one of the frame:
\* df_filtered (held in data) is df_original or the rows of the reference
SelectReference ==
    /\ pc = "filter"
    /\ \E selected \in {TOUS_LES_APPELS_D_OFFRE} \cup Values(df, "reference") :
          /\ selected_reference' = selected
          /\ data' = IF selected # TOUS_LES_APPELS_D_OFFRE
                     THEN SelectSeq(df, LAMBDA r : r.reference = selected)
                     ELSE df
    /\ pc' = "indicators"
    /\ UNCHANGED <<df, kpis, arg, ret, session_state>>

\* the rows as get_distributeurs_analysis and get_ts_paillasse_analysis
\* read them, the amounts as floats
AsLignes(rows) ==
    [i \in 1..Len(rows) |->
        Ligne(rows[i].distributeur, rows[i].paillasse, rows[i].lot,
              FromInt(rows[i].montant))]

\* kpis = calculate_kpis(df_filtered), distributeurs_analysis =
\* get_distributeurs_analysis(df_filtered), ts_paillasse_analysis =
\* get_ts_paillasse_analysis(df_filtered)
ComputeIndicators ==
    /\ pc = "indicators"
    /\ \E dm \in SortValuesDesc(SortKeys(Values(data, "distributeur")), SumByDistributeur(data)),
          dc \in SortValuesDesc(SortKeys(Values(data, "distributeur")), CountByDistributeur(data)),
          da \in DistributeursAnalysis(AsLignes(data)),
          pa \in TsPaillasseAnalysis(AsLignes(data)) :
          /\ kpis' = {KpisOf(data, dm, dc)}
          /\ ret' = {[op |-> "get_distributeurs_analysis", value |-> da],
                     [op |-> "get_ts_paillasse_analysis", value |-> pa]}
    /\ pc' = "render"
    /\ UNCHANGED <<df, data, arg, session_state, selected_reference>>

InitScript ==
    /\ arg \in {{sheet} : sheet \in Sheets}
    /\ df = <<>>
    /\ kpis = {}
    /\ data = <<>>
    /\ ret = {}
    /\ pc = "load"
    /\ session_state = {}
    /\ selected_reference = <<>>

NextScript ==
    \/ ScriptLoad
    \/ CheckEmpty
    \/ CheckColumns
    \/ SelectReference
    \/ ComputeIndicators

SpecScript == InitScript /\ [][NextScript]_vars

Commentaires == {<<"o", "k">>, <<"v", "u">>}

\* condition = (df['paillasse'] == paillasse) & (df['reference'] == reference)
Condition(rows, paillasse, reference) ==
    {i \in 1..Len(rows) : rows[i].paillasse = paillasse /\ rows[i].reference = reference}

\* save_comment_to_dataframe: the comment is written in the rows of the
\* key, or a row is added when the key has none
save_comment_to_dataframe(rows, paillasse, commentaire, reference) ==
    IF Condition(rows, paillasse, reference) # {}
    THEN [i \in 1..Len(rows) |->
             IF i \in Condition(rows, paillasse, reference)
             THEN [rows[i] EXCEPT !.commentaires_dg = commentaire]
             ELSE rows[i]]
    ELSE Append(rows, [ paillasse |-> paillasse, reference |-> reference,
                        commentaires_dg |-> commentaire,
                        lot |-> <<"C", "O", "M", "M", "E", "N", "T", "A", "I", "R", "E", "_", "D", "G">>,
                        distributeur |-> <<"S", "Y", "S", "T", "E", "M", "E">>,
                        montant |-> 0,
                        attribution |-> <<>> ])

\* get_comment_from_dataframe: the comment of the first row of the key
get_comment_from_dataframe(rows, paillasse, reference) ==
    IF Condition(rows, paillasse, reference) # {}
    THEN LET first == CHOOSE i \in Condition(rows, paillasse, reference) :
                          \A j \in Condition(rows, paillasse, reference) : i <= j
         IN  rows[first].commentaires_dg
    ELSE <<>>

\* selected_reference if selected_reference != "TOUS LES APPELS D'OFFRE" else ""
KeyReference ==
    IF selected_reference # TOUS_LES_APPELS_D_OFFRE THEN selected_reference ELSE <<>>

\* the options of the product line selector: the product lines of
\* ts_paillasse_analysis
PaillasseOptions == Values(SelectSeq(data, IsTsRow), "paillasse")

\* the frame the download buttons write: st.session_state.df_original if
\* there is one, df_original otherwise
CsvData == IF session_state # {} THEN CHOOSE f \in session_state : TRUE ELSE df

\* the save button of the selected product line, clicked with a comment
\* in the editor: df.loc writes in df_original itself, which df_filtered
\* is when no reference is selected
SaveCommentOf(selected_paillasse, commentaire) ==
    /\ pc = "render"
    /\ selected_paillasse \in PaillasseOptions
    /\ LET updated_df ==
               save_comment_to_dataframe(df, selected_paillasse, commentaire, KeyReference)
           in_place == Condition(df, selected_paillasse, KeyReference) # {}
       IN  /\ session_state' = {updated_df}
           /\ df' = IF in_place THEN updated_df ELSE df
           /\ data' = IF in_place /\ selected_reference = TOUS_LES_APPELS_D_OFFRE
                      THEN updated_df ELSE data
    /\ pc' = "saved"
    /\ UNCHANGED <<kpis, arg, ret, selected_reference>>

SaveComment ==
    \E selected_paillasse \in PaillasseOptions, commentaire \in Commentaires :
        SaveCommentOf(selected_paillasse, commentaire)

\* any interaction with the page runs the script again from the top; the
\* session state is kept
Rerun ==
    /\ pc \in {"render", "saved"}
    /\ pc' = "load"
    /\ df' = <<>>
    /\ data' = <<>>
    /\ kpis' = {}
    /\ ret' = {}
    /\ selected_reference' = <<>>
    /\ UNCHANGED <<arg, session_state>>

InitComments ==
    /\ arg \in {{sheet} : sheet \in {x \in Sheets : x.columns = REQUIRED_COLUMNS
                                                    /\ x.rows # <<>>}}
    /\ df = <<>>
    /\ kpis = {}
    /\ data = <<>>
    /\ ret = {}
    /\ pc = "load"
    /\ session_state = {}
    /\ selected_reference = <<>>

NextComments ==
    \/ ScriptLoad
    \/ CheckEmpty
    \/ CheckColumns
    \/ SelectReference
    \/ ComputeIndicators
    \/ SaveComment
    \/ Rerun

SpecComments == InitComments /\ [][NextComments]_vars

\* a frame without its comments
BidRows(rows) == [i \in 1..Len(rows) |-> [rows[i] EXCEPT !.commentaires_dg = <<>>]]

\* the indicators that do not depend on the order of equal values
KpiNumbers(rows) ==
    LET k == KpisOf(rows, <<>>, <<>>)
    IN  <<k.total_soumissionnaires, k.montant_total_marche, k.montant_total_ts,
          k.pourcentage_marche_ts, k.total_lots, k.lots_ts_soumissionne,
          k.lots_attribues_ts, k.lots_non_positionnes_ts, k.lots_sans_soumission>>

\* C23: saving a comment changes only comment fields: the dataset kept
\* after the saves has the bid rows of the loaded dataset, and the
\* indicators computed from it are those of the loaded dataset.
C23_SavesChangeOnlyComments ==
    pc = "saved" =>
        /\ BidRows(CsvData) = BidRows(df)
        /\ KpiNumbers(CsvData) = KpiNumbers(df)

\* the comment kept for a key in the frame of the downloads
StoredComment(paillasse, reference) ==
    IF session_state = {} THEN <<>>
    ELSE get_comment_from_dataframe(CsvData, paillasse, reference)

KeyPaillasses == {P1, P2}

KeyReferences == {<<"R", "1">>, <<"R", "2">>, <<>>}

\* C24: the comment store is last-write-wins per key and loses nothing:
\* a save puts its comment under its key in the downloaded frame, no other
\* step changes the comment kept for a key, and the comment shown for the
\* selected key is the one kept for it.
C24_LastWriteWinsLosesNothing ==
    [][\A paillasse \in KeyPaillasses, reference \in KeyReferences :
          LET saves ==
                  {c \in Commentaires :
                      SaveCommentOf(paillasse, c) /\ KeyReference = reference}
          IN  /\ \A c \in saves : StoredComment(paillasse, reference)' = c
              /\ saves = {} /\ StoredComment(paillasse, reference) # <<>>
                    => StoredComment(paillasse, reference)'
                           = StoredComment(paillasse, reference)
              /\ pc = "render" /\ paillasse \in PaillasseOptions
                 /\ reference = KeyReference
                 /\ StoredComment(paillasse, reference) # <<>>
                    => get_comment_from_dataframe(df, paillasse, reference)
                           = StoredComment(paillasse, reference)]_vars

====
